---- MODULE Spec2Model ----
(***************************************************************************)
(* Mission Control API server (scripts/api_server.py): the Kanban task     *)
(* CRUD handlers, the activity log and the two SSE stream generators,      *)
(* over a relational store reached through a connection pool.              *)
(*                                                                         *)
(* Every handler is a coroutine: each `await` on the store is a point      *)
(* where other coroutines run, so a handler with two statements is two     *)
(* steps.  Connections are in autocommit mode (no transaction is opened),  *)
(* so each statement is atomic on its own.                                 *)
(***************************************************************************)
EXTENDS Integers, Sequences, FiniteSets, TLC

\* ------------------------------------------------------------------ bounds
MaxTime     == 1    \* the clock runs over 0..MaxTime
MaxIds      == 3    \* uuid4() can be called MaxIds times
MaxRequests == 3    \* CRUD requests accepted in one run
MaxHandlers == 2    \* request coroutines that can be in flight together
MaxEvents   == 3    \* rows the activity log can hold
MaxTicks    == 3    \* reads one stream connection makes
StreamLimit == 2    \* the LIMIT 100 of the stream queries, scaled to the tables
MaxStalled  == 10   \* further stream connections whose clients stop reading

\* ------------------------------------------------------- program constants
max_size       == 10    \* asyncpg.create_pool(max_size=10)
TitleMinLength == 1     \* Field(min_length=1)
TitleMaxLength == 500   \* Field(max_length=500)
PriorityMin    == 0     \* Field(ge=0)
PriorityMax    == 10    \* Field(le=10)
LimitMin       == 1     \* Query(100, ge=1)
LimitMax       == 1000  \* Query(100, le=1000)

\* ------------------------------------------------------------------ values
\* Optional[T]: None is the empty tuple, a present value v is <<v>>.
None    == <<>>
Some(v) == <<v>>
IsNone(o) == o = <<>>
Val(o)  == o[1]

Handlers == 1..MaxHandlers
UUIDs    == 1..MaxIds

\* Identifier strings a client can put in the path.  uuid.UUID() accepts the
\* canonical lower-case form and other spellings (upper-case hex) of the
\* same value; anything else raises ValueError.
BadId       == <<"bad", 0>>
IdStrings   == ({"canon"} \X UUIDs) \cup {<<"upper", 1>>} \cup {BadId}
WellFormed(s) == s[1] \in {"canon", "upper"}
\* uuid.UUID(task_id) on a well-formed string
ParseUUID(s) == s[2]
\* str(row["id"]): always the canonical spelling
StrUUID(u)  == <<"canon", u>>

\* datetime.isoformat() and the store's parse of such a string
isoformat(t)     == <<"iso", t>>
ParseTimestamp(s) == s[2]
\* the empty string, where a timestamp string is expected
EmptyString == <<"empty", 0>>

\* Titles stand for strings of the given length.
Titles   == {"", "a", "b", "over"}
TitleLen == [t \in Titles |->
               CASE t = ""     -> 0
                 [] t = "a"    -> 1
                 [] t = "b"    -> 1
                 [] t = "over" -> 501]

StatusValues == {"backlog", "todo", "in_progress", "done", "cancelled"}

\* A completed_at string a client supplies: a date outside the clock's range.
SuppliedTime == MaxTime + 8

\* ------------------------------------------------------------ request bodies
\* POST /kanban/tasks bodies; an omitted JSON member is None.
CreateBody(t, d, s, p, a) ==
    [title |-> t, description |-> d, status |-> s, priority |-> p, agent_id |-> a]

CreateBodies ==
    { CreateBody(Some("a"), None, None, None, None),
      CreateBody(Some("b"), Some("d"), Some("done"), Some(5), Some("ag")),
      CreateBody(Some(""), None, None, None, None),
      CreateBody(Some("over"), None, None, None, None),
      CreateBody(Some("a"), None, None, Some(11), None),
      CreateBody(Some("a"), None, Some("bogus"), None, None) }

\* PUT /kanban/tasks/{id} bodies (TaskUpdate: every field Optional, default None)
UpdateBody(t, d, s, p, a, c) ==
    [title |-> t, description |-> d, status |-> s, priority |-> p,
     agent_id |-> a, completed_at |-> c]

UpdateBodies ==
    { UpdateBody(Some("b"), None, None, None, None, None),
      UpdateBody(None, Some("d"), None, Some(5), Some("ag"), None),
      UpdateBody(None, None, Some("done"), None, None, None),
      UpdateBody(None, None, Some("done"), None, None, Some(isoformat(SuppliedTime))),
      UpdateBody(None, None, Some("done"), None, None, Some(EmptyString)),
      UpdateBody(None, None, Some("todo"), None, None, None),
      UpdateBody(Some(""), None, Some("bogus"), Some(11), None, None),
      UpdateBody(None, None, None, None, None, Some(isoformat(SuppliedTime))),
      UpdateBody(None, None, None, None, None, None) }

\* ------------------------------------------------------------------- state
VARIABLES
    now,        \* the wall clock read by datetime.now() and by the store
    tasks,      \* table tasks: [id -> row]
    issued,     \* the ids uuid4() has returned so far
    pc,         \* pc[h]: where request coroutine h is suspended
    req,        \* req[h]: the request h is serving and its locals
    resp,       \* the response most recently returned to a client
    nreq,       \* requests accepted so far
    okDeletes,  \* okDeletes[u]: the 200 responses DELETE has given for id u
    log,        \* table activity_events, in insertion order
    late,       \* ids of the events appended while the activity stream was
                \* open and past its first batch
    apc,        \* activity_event_generator: where it is suspended
    last_event_id,  \* activity_event_generator: its watermark local
    events,     \* activity_event_generator: the `events` list of this tick
    ai,         \* activity_event_generator: frames of this tick yielded so far
    aout,       \* the frames the activity stream has pushed, in order
    aticks,     \* reads the activity stream has made
    tpc,        \* task_event_generator: where it is suspended
    tout,       \* the frame the task stream pushed last
    tframes,    \* frames the task stream has pushed
    tticks,     \* reads the task stream has made
    conns,      \* conns[g]: pool connections stream generator g holds
    others      \* further stream connections whose generator is suspended at
                \* a yield and whose client has stopped reading

crudVars     == <<tasks, issued, pc, req, resp, nreq, okDeletes>>
activityVars == <<apc, last_event_id, events, ai, aout, aticks>>
taskStreamVars == <<tpc, tout, tframes, tticks>>
streamVars   == <<log, late, activityVars, taskStreamVars, conns, others>>
vars == <<now, crudVars, streamVars>>

NoReq  == [kind |-> "none"]
\* a response: the route, the path id of the request it answers (if the
\* route has one), the status code and the JSON body
Response(k, s, c, b) == [kind |-> k, ids |-> s, code |-> c, body |-> b]
NoResp == Response("none", None, 0, None)

\* ------------------------------------------------------------- entity model
\* TaskCreate: pydantic validation of a create body
TaskCreateValid(b) ==
    /\ ~IsNone(b.title)
    /\ TitleLen[Val(b.title)] >= TitleMinLength
    /\ TitleLen[Val(b.title)] <= TitleMaxLength
    /\ (IF IsNone(b.status) THEN TRUE ELSE Val(b.status) \in StatusValues)
    /\ (IF IsNone(b.priority) THEN TRUE
        ELSE Val(b.priority) >= PriorityMin /\ Val(b.priority) <= PriorityMax)

\* TaskCreate: the parsed model, defaults filled in
TaskCreate(b) ==
    [title       |-> Val(b.title),
     description |-> b.description,
     status      |-> IF IsNone(b.status) THEN "backlog" ELSE Val(b.status),
     priority    |-> IF IsNone(b.priority) THEN 0 ELSE Val(b.priority),
     agent_id    |-> b.agent_id]

\* The defaults of the columns of tasks that the INSERT does not name: the
\* table is created outside this file; created_at and updated_at are the
\* store's clock at the insert, completed_at is NULL.
TaskColumnDefaults(clock) ==
    [created_at |-> clock, updated_at |-> clock, completed_at |-> None]

\* The default of activity_events.created_at: the store's clock at the insert.
EventColumnDefaults(clock) == [created_at |-> clock]

\* The row INSERT INTO tasks (id, title, description, status, priority,
\* agent_id) stores: the columns it does not name take the table's defaults.
InsertedRow(t, clock) ==
    [title       |-> t.title,
     description |-> t.description,
     status      |-> t.status,
     priority    |-> t.priority,
     agent_id    |-> t.agent_id,
     created_at  |-> TaskColumnDefaults(clock).created_at,
     updated_at  |-> TaskColumnDefaults(clock).updated_at,
     completed_at |-> TaskColumnDefaults(clock).completed_at]

\* The JSON object the task routes build from a row
TaskJson(u, row) ==
    [id          |-> StrUUID(u),
     title       |-> row.title,
     description |-> row.description,
     status      |-> row.status,
     priority    |-> row.priority,
     agent_id    |-> row.agent_id,
     created_at  |-> isoformat(row.created_at),
     updated_at  |-> isoformat(row.updated_at),
     completed_at |-> IF IsNone(row.completed_at) THEN None
                      ELSE Some(isoformat(Val(row.completed_at)))]

\* Python truthiness of an Optional[str]: None and "" are falsy
Truthy(o) == IF IsNone(o) THEN FALSE ELSE Val(o) # EmptyString

\* update_task with the `is not None` guard of description dropped
BuildUpdatesDescriptionUnguarded(b, clock) ==
    LET cols == {c \in {"title", "status", "priority", "agent_id"} : ~IsNone(b[c])}
                \cup {"description"}
        stamp == IF IsNone(b.status) THEN FALSE
                 ELSE Val(b.status) = "done" /\ ~Truthy(b.completed_at)
    IN  [c \in cols \cup (IF stamp THEN {"completed_at"} ELSE {}) |->
            CASE c = "completed_at" -> Some(clock)
              [] c \in {"description", "agent_id"} -> b[c]
              [] OTHER -> Val(b[c])]

\* update_task copying a completed_at of the body into `updates`
BuildUpdatesCopiesCompletedAt(b, clock) ==
    LET cols == {c \in {"title", "description", "status", "priority", "agent_id",
                        "completed_at"} : ~IsNone(b[c])}
        stamp == IF IsNone(b.status) THEN FALSE
                 ELSE Val(b.status) = "done" /\ ~Truthy(b.completed_at)
    IN  [c \in cols \cup (IF stamp THEN {"completed_at"} ELSE {}) |->
            CASE c = "completed_at" ->
                    IF stamp THEN Some(clock) ELSE Some(ParseTimestamp(Val(b[c])))
              [] c \in {"description", "agent_id"} -> b[c]
              [] OTHER -> Val(b[c])]

\* update_task: the `updates` dict, as a function column -> new value,
\* built from the body with datetime.now() = clock
BuildUpdates(b, clock) ==
    LET cols == {c \in {"title", "description", "status", "priority", "agent_id"} :
                    ~IsNone(b[c])}
        stamp == IF IsNone(b.status) THEN FALSE
                 ELSE Val(b.status) = "done" /\ ~Truthy(b.completed_at)
    IN  [c \in cols \cup (IF stamp THEN {"completed_at"} ELSE {}) |->
            CASE c = "completed_at" -> Some(clock)
              [] c \in {"description", "agent_id"} -> b[c]
              [] OTHER -> Val(b[c])]

\* UPDATE tasks SET <updates>, updated_at = <stamp> applied to one row
ApplyUpdates(row, updates, stamp) ==
    [c \in DOMAIN row |->
        IF c = "updated_at" THEN stamp
        ELSE IF c \in DOMAIN updates THEN updates[c]
        ELSE row[c]]

\* uuid.uuid4(): a value never returned before.  The values are
\* interchangeable, so they are handed out in increasing order.
uuid4 == CHOOSE u \in UUIDs \ issued : \A v \in UUIDs \ issued : u <= v

\* ---------------------------------------------------------- connection pool
\* a request coroutine is inside `async with pool.acquire()` between its
\* first statement and its return
HandlerHolds(h) == pc[h] \in {"create_read", "upd_read", "get_read"}
\* the two stream generators that are followed step by step
Generators == {"activity", "task"}
\* `async with pool.acquire() as conn` entered by generator g
Acquire(c, g) == [c EXCEPT ![g] = @ + 1]
\* the `async with` block left without its __aexit__ running
ReleaseSkipped(c, g) == c
\* the `async with` block left by generator g, on any path: __aexit__
\* hands the connection back
Release(c, g) == [c EXCEPT ![g] = @ - 1]
\* connections of the pool that are out
NumHeld  == Cardinality({h \in Handlers : HandlerHolds(h)})
            + conns["activity"] + conns["task"] + others
PoolFree == NumHeld < max_size

\* One coroutine is spawned per inbound request.  The coroutine slots are
\* interchangeable, so a new request takes the lowest free one.
CanStart(h) ==
    /\ pc[h] = "idle"
    /\ \A g \in Handlers : g < h => pc[g] # "idle"
    /\ nreq < MaxRequests

\* -------------------------------------------------------------------- clock
Tick ==
    /\ now < MaxTime
    /\ now' = now + 1
    /\ UNCHANGED <<crudVars, streamVars>>

\* -------------------------------------------------------------- create_task
\* A body that fails TaskCreate validation is answered 422 before the
\* handler body runs.
CreateRejected(h, b) ==
    /\ CanStart(h)
    /\ ~TaskCreateValid(b)
    /\ nreq' = nreq + 1
    /\ resp' = Response("create", None, 422, None)
    /\ UNCHANGED <<now, tasks, issued, pc, req, okDeletes>>
    /\ UNCHANGED streamVars

\* acquire; task_id = uuid.uuid4(); await conn.execute(INSERT ...)
CreateInsert(h, b) ==
    /\ CanStart(h)
    /\ TaskCreateValid(b)
    /\ PoolFree
    /\ issued # UUIDs
    /\ LET u == uuid4 IN
          /\ issued' = issued \cup {u}
          /\ tasks' = (u :> InsertedRow(TaskCreate(b), now)) @@ tasks
          /\ req' = [req EXCEPT ![h] = [kind |-> "create", body |-> b, id |-> u]]
    /\ nreq' = nreq + 1
    /\ pc' = [pc EXCEPT ![h] = "create_read"]
    /\ UNCHANGED <<now, resp, okDeletes>>
    /\ UNCHANGED streamVars

\* row = await conn.fetchrow(SELECT ... WHERE id = task_id); return {...}
\* fetchrow gives None when the row is gone and row["id"] then raises
\* TypeError, which the framework answers with 500.
CreateRead(h) ==
    /\ pc[h] = "create_read"
    /\ resp' = IF req[h].id \in DOMAIN tasks
               THEN Response("create", None, 200, Some(TaskJson(req[h].id, tasks[req[h].id])))
               ELSE Response("create", None, 500, None)
    /\ pc' = [pc EXCEPT ![h] = "idle"]
    /\ req' = [req EXCEPT ![h] = NoReq]
    /\ UNCHANGED <<now, tasks, issued, nreq, okDeletes>>
    /\ UNCHANGED streamVars

\* -------------------------------------------------------------- update_task
\* Build `updates`; an empty dict is answered 400 before any store access.
UpdateBuild(h, s, b) ==
    /\ CanStart(h)
    /\ nreq' = nreq + 1
    /\ IF DOMAIN BuildUpdates(b, now) = {}
       THEN /\ resp' = Response("update", Some(s), 400, None)
            /\ UNCHANGED <<pc, req>>
       ELSE /\ req' = [req EXCEPT ![h] =
                  [kind |-> "update", ids |-> s, body |-> b,
                   updates |-> BuildUpdates(b, now), stamp |-> now, nrows |-> 0]]
            /\ pc' = [pc EXCEPT ![h] = "upd_exec"]
            /\ resp' = resp
    /\ UNCHANGED <<now, tasks, issued, okDeletes>>
    /\ UNCHANGED streamVars

\* acquire; await conn.execute(UPDATE tasks SET ... WHERE id = $1);
\* uuid.UUID(task_id) raising ValueError is answered 400.
UpdateExec(h) ==
    /\ pc[h] = "upd_exec"
    /\ PoolFree
    /\ IF ~WellFormed(req[h].ids)
       THEN /\ resp' = Response("update", Some(req[h].ids), 400, None)
            /\ pc' = [pc EXCEPT ![h] = "idle"]
            /\ req' = [req EXCEPT ![h] = NoReq]
            /\ tasks' = tasks
       ELSE LET u == ParseUUID(req[h].ids) IN
            /\ IF u \in DOMAIN tasks
               THEN /\ tasks' = [tasks EXCEPT ![u] =
                                    ApplyUpdates(tasks[u], req[h].updates, req[h].stamp)]
                    /\ req' = [req EXCEPT ![h].nrows = 1]
               ELSE UNCHANGED <<tasks, req>>
            /\ pc' = [pc EXCEPT ![h] = "upd_read"]
            /\ resp' = resp
    /\ UNCHANGED <<now, issued, nreq, okDeletes>>
    /\ UNCHANGED streamVars

\* row = await conn.fetchrow(SELECT ...); 404 if not row, else the row
UpdateResponse(s, store) ==
    LET u == ParseUUID(s) IN
    IF u \in DOMAIN store
    THEN Response("update", Some(s), 200, Some(TaskJson(u, store[u])))
    ELSE Response("update", Some(s), 404, None)

UpdateRead(h) ==
    /\ pc[h] = "upd_read"
    /\ resp' = UpdateResponse(req[h].ids, tasks)
    /\ pc' = [pc EXCEPT ![h] = "idle"]
    /\ req' = [req EXCEPT ![h] = NoReq]
    /\ UNCHANGED <<now, tasks, issued, nreq, okDeletes>>
    /\ UNCHANGED streamVars

\* -------------------------------------------------------------- delete_task
\* the command tag conn.execute returns for DELETE ... WHERE id = u
DeleteTag(u, store) == IF u \in DOMAIN store THEN "DELETE 1" ELSE "DELETE 0"

\* delete_task with the check of the command tag dropped
DeleteResponseUnchecked(result, s) == Response("delete", Some(s), 200, Some(s))

\* 404 on "DELETE 0", else {"success": True, "id": task_id}
DeleteResponse(result, s) ==
    IF result = "DELETE 0"
    THEN Response("delete", Some(s), 404, None)
    ELSE Response("delete", Some(s), 200, Some(s))

DeleteTask(h, s) ==
    /\ CanStart(h)
    /\ PoolFree
    /\ nreq' = nreq + 1
    /\ IF ~WellFormed(s)
       THEN /\ resp' = Response("delete", Some(s), 400, None)
            /\ UNCHANGED <<tasks, okDeletes>>
       ELSE LET u == ParseUUID(s)
                r == DeleteResponse(DeleteTag(u, tasks), s)
            IN  /\ tasks' = [v \in DOMAIN tasks \ {u} |-> tasks[v]]
                /\ resp' = r
                /\ okDeletes' = IF r.code = 200
                                THEN [okDeletes EXCEPT ![u] = @ + 1]
                                ELSE okDeletes
    /\ UNCHANGED <<now, issued, pc, req>>
    /\ UNCHANGED streamVars

\* ------------------------------------------------------------ query engine
Min(a, b) == IF a <= b THEN a ELSE b

\* the orders in which a finite set can be listed
Listings(S) ==
    {s \in [1..Cardinality(S) -> S] : \A i, j \in 1..Cardinality(S) : i # j => s[i] # s[j]}

\* reversed(seq)
Reversed(s) == [i \in 1..Len(s) |-> s[Len(s) + 1 - i]]

\* LIMIT n
Limit(s, n) == SubSeq(s, 1, Min(n, Len(s)))

\* ----------------------------------------------------------------- get_task
\* get_task with the `if not row` check dropped: row["id"] on None raises
GetResponseUnchecked(s, store) ==
    LET u == ParseUUID(s) IN
    IF u \in DOMAIN store
    THEN Response("get", Some(s), 200, Some(TaskJson(u, store[u])))
    ELSE Response("get", Some(s), 500, None)

\* 404 if not row, else the row
GetResponse(s, store) ==
    LET u == ParseUUID(s) IN
    IF u \in DOMAIN store
    THEN Response("get", Some(s), 200, Some(TaskJson(u, store[u])))
    ELSE Response("get", Some(s), 404, None)

\* acquire; uuid.UUID(task_id) is evaluated before conn.fetchrow is called:
\* its ValueError is answered 400 with no statement sent; otherwise the
\* SELECT is sent and the coroutine waits for its result.
GetTask(h, s) ==
    /\ CanStart(h)
    /\ PoolFree
    /\ nreq' = nreq + 1
    /\ IF ~WellFormed(s)
       THEN /\ resp' = Response("get", Some(s), 400, None)
            /\ UNCHANGED <<pc, req>>
       ELSE /\ req' = [req EXCEPT ![h] = [kind |-> "get", ids |-> s]]
            /\ pc' = [pc EXCEPT ![h] = "get_read"]
            /\ resp' = resp
    /\ UNCHANGED <<now, tasks, issued, okDeletes>>
    /\ UNCHANGED streamVars

\* the result of SELECT * FROM tasks WHERE id = $1 arrives
GetTaskRead(h) ==
    /\ pc[h] = "get_read"
    /\ resp' = GetResponse(req[h].ids, tasks)
    /\ pc' = [pc EXCEPT ![h] = "idle"]
    /\ req' = [req EXCEPT ![h] = NoReq]
    /\ UNCHANGED <<now, tasks, issued, nreq, okDeletes>>
    /\ UNCHANGED streamVars

\* --------------------------------------------------------- get_kanban_tasks
\* GET /kanban query parameters
ListQuery(s, a) == [status |-> s, agent_id |-> a]
ListQueries ==
    { ListQuery(None, None),
      ListQuery(Some("backlog"), None),
      ListQuery(Some("done"), Some("zz")),
      ListQuery(None, Some("ag")) }

\* the WHERE clause the handler picks: `if status:` first, `elif agent_id:`
Selected(store, q) ==
    IF ~IsNone(q.status) THEN {u \in DOMAIN store : store[u].status = Val(q.status)}
    ELSE IF ~IsNone(q.agent_id) THEN {u \in DOMAIN store : store[u].agent_id = q.agent_id}
    ELSE DOMAIN store

\* ORDER BY priority DESC, created_at DESC: row a may come before row b
SortsBefore(a, b) ==
    IF a.priority # b.priority THEN a.priority > b.priority
    ELSE a.created_at >= b.created_at

\* the results the query can give: rows equal in both sort keys come in
\* any order
SelectTasks(store, q) ==
    {s \in Listings(Selected(store, q)) :
        \A i, j \in 1..Len(s) : i < j => SortsBefore(store[s[i]], store[s[j]])}

\* acquire; rows = await conn.fetch(...); return the list of task objects
ListTasks(h, q) ==
    /\ CanStart(h)
    /\ PoolFree
    /\ nreq' = nreq + 1
    /\ \E ids \in SelectTasks(tasks, q) :
          resp' = Response("list", None, 200,
                           Some([i \in 1..Len(ids) |-> TaskJson(ids[i], tasks[ids[i]])]))
    /\ UNCHANGED <<now, tasks, issued, pc, req, okDeletes>>
    /\ UNCHANGED streamVars

\* ------------------------------------------------------------- activity log
\* json.dumps of a payload document
JsonDumps(d) == <<"json", d>>

\* POST /activity inputs: event_type, and the optional data and source
ActivityBody(e, d, s) == [event_type |-> e, data |-> d, source |-> s]
EmptyDoc == "{}"
ActivityBodies ==
    { ActivityBody("e", None, None),
      ActivityBody("e", Some(EmptyDoc), Some("s")),
      ActivityBody("f", Some("{k:v}"), None) }

\* Python truthiness of an Optional[dict]: None and {} are falsy
TruthyDoc(d) == IF IsNone(d) THEN FALSE ELSE Val(d) # EmptyDoc

\* log_activity writing over the newest row in place of inserting
LogActivityOverwrites(b) ==
    /\ Len(log) < MaxEvents
    /\ PoolFree
    /\ LET row == [id |-> Len(log) + 1, event_type |-> b.event_type, source |-> b.source,
                   data |-> IF TruthyDoc(b.data) THEN Some(JsonDumps(Val(b.data))) ELSE None,
                   created_at |-> EventColumnDefaults(now).created_at]
       IN  /\ log' = IF log = <<>> THEN <<row>> ELSE [log EXCEPT ![Len(log)] = row]
           /\ resp' = Response("log", None, 200, Some(StrUUID(row.id)))
    /\ UNCHANGED <<now, tasks, issued, pc, req, nreq, okDeletes>>
    /\ UNCHANGED <<late, activityVars, taskStreamVars, conns, others>>

\* log_activity: acquire; event_id = uuid.uuid4(); INSERT INTO
\* activity_events (id, event_type, source, data): created_at takes the
\* table's default.  Event ids are handed out in insertion order.
LogActivity(b) ==
    /\ Len(log) < MaxEvents
    /\ PoolFree
    /\ LET event_id == Len(log) + 1 IN
         /\ log' = Append(log,
                [id |-> event_id, event_type |-> b.event_type, source |-> b.source,
                 data |-> IF TruthyDoc(b.data) THEN Some(JsonDumps(Val(b.data))) ELSE None,
                 created_at |-> EventColumnDefaults(now).created_at])
         /\ resp' = Response("log", None, 200, Some(StrUUID(event_id)))
         /\ late' = IF ~IsNone(last_event_id) /\ apc \notin {"aclose", "closed"}
                    THEN late \cup {event_id} ELSE late
    /\ UNCHANGED <<now, tasks, issued, pc, req, nreq, okDeletes>>
    /\ UNCHANGED <<activityVars, taskStreamVars, conns, others>>

\* the rows of activity_events
ActivityRows == {log[i] : i \in 1..Len(log)}

\* ORDER BY created_at DESC: rows with equal created_at come in any order
ByCreatedDesc(S) ==
    {s \in Listings(S) : \A i, j \in 1..Len(s) : i < j => s[i].created_at >= s[j].created_at}

\* the dict the activity routes build from a row
EventJson(row) ==
    [id |-> StrUUID(row.id), event_type |-> row.event_type, source |-> row.source,
     data |-> row.data, created_at |-> isoformat(row.created_at)]

\* GET /activity query parameters: limit (default 100) and event_type
ActivityQuery(l, e) == [limit |-> l, event_type |-> e]
ActivityQueries ==
    { ActivityQuery(0, None), ActivityQuery(1, None),
      ActivityQuery(2, None), ActivityQuery(2, Some("f")) }

\* SELECT * FROM activity_events [WHERE event_type = $1]
\* ORDER BY created_at DESC LIMIT $n
SelectActivity(q) ==
    LET rows == IF IsNone(q.event_type) THEN ActivityRows
                ELSE {r \in ActivityRows : r.event_type = Val(q.event_type)}
    IN  {Limit(s, q.limit) : s \in ByCreatedDesc(rows)}

\* get_activity: a limit outside 1..1000 is answered 422 before the handler
\* body runs; else acquire, fetch, return the list of event objects
GetActivity(h, q) ==
    /\ CanStart(h)
    /\ PoolFree
    /\ nreq' = nreq + 1
    /\ IF q.limit < LimitMin \/ q.limit > LimitMax
       THEN resp' = Response("activity", None, 422, None)
       ELSE \E rows \in SelectActivity(q) :
               resp' = Response("activity", None, 200,
                                Some([i \in 1..Len(rows) |-> EventJson(rows[i])]))
    /\ UNCHANGED <<now, tasks, issued, pc, req, okDeletes>>
    /\ UNCHANGED streamVars

\* ---------------------------------------------------------- activity stream

\* SELECT * FROM activity_events ORDER BY created_at DESC LIMIT 100
SelectRecentActivity == {Limit(s, StreamLimit) : s \in ByCreatedDesc(ActivityRows)}

\* SELECT * FROM activity_events WHERE created_at > '<w>' ORDER BY created_at DESC
SelectActivitySince(w) ==
    ByCreatedDesc({r \in ActivityRows : r.created_at > ParseTimestamp(w)})

\* the value of last_event_id after the `for row in rows` loop: it is
\* assigned only while it is falsy, that is from the first row of the
\* first non-empty result
WatermarkAfter(w, rows) ==
    IF IsNone(w) /\ rows # <<>> THEN Some(isoformat(rows[1].created_at)) ELSE w

\* the frames yielded without the reversed()
EmitOrderAsFetched(evs) == evs

\* the order in which the frames of a tick are yielded
EmitOrder(evs) == Reversed(evs)

ActivityFrame(n, ev) == [tick |-> n, event |-> ev]

\* One pass of the loop body up to its first suspension: acquire, fetch,
\* build `events`; with no events the `async with` block ends and the
\* generator sleeps, else it is suspended at the first yield.  The loop
\* has no end: the count of reads stops at MaxTicks, and from there on
\* only the reads that find nothing, after a read that found nothing, are
\* followed.
ActivityPoll ==
    /\ apc = "poll"
    /\ PoolFree
    /\ \E rows \in (IF IsNone(last_event_id) THEN SelectRecentActivity
                    ELSE SelectActivitySince(Val(last_event_id))) :
         LET evs == [i \in 1..Len(rows) |-> EventJson(rows[i])] IN
         /\ (IF aticks < MaxTicks THEN TRUE ELSE rows = <<>> /\ events = <<>>)
         /\ events' = evs
         /\ last_event_id' = WatermarkAfter(last_event_id, rows)
         /\ aticks' = Min(aticks + 1, MaxTicks)
         /\ IF evs = <<>>
            THEN /\ apc' = "sleep"
                 /\ ai' = 0
                 /\ aout' = aout
                 /\ conns' = Release(Acquire(conns, "activity"), "activity")
            ELSE /\ apc' = "yield"
                 /\ ai' = 1
                 /\ aout' = Append(aout, ActivityFrame(aticks + 1, EmitOrder(evs)[1]))
                 /\ conns' = Acquire(conns, "activity")
    /\ UNCHANGED <<now, crudVars, log, late, others, taskStreamVars>>

\* The client takes the frame and the generator runs to its next
\* suspension: the next yield, or the sleep after the last one.
ActivityResume ==
    /\ apc = "yield"
    /\ IF ai < Len(events)
       THEN /\ ai' = ai + 1
            /\ aout' = Append(aout, ActivityFrame(aticks, EmitOrder(events)[ai + 1]))
            /\ apc' = apc
            /\ conns' = conns
       ELSE /\ apc' = "sleep"
            /\ conns' = Release(conns, "activity")
            /\ UNCHANGED <<ai, aout>>
    /\ UNCHANGED <<now, crudVars, log, late, others, last_event_id, events, aticks, taskStreamVars>>

\* asyncio.sleep(1) returns
ActivityWake ==
    /\ apc = "sleep"
    /\ apc' = "poll"
    /\ UNCHANGED <<now, crudVars, log, late, others, conns, last_event_id, events, ai, aout, aticks, taskStreamVars>>

\* The client disconnects and the task serving the response is cancelled.
\* While the generator is inside the store call or the sleep, CancelledError
\* is raised there and caught by the `except`: the generator returns.  While
\* it is suspended at a yield the cancellation lands in the consumer: the
\* generator is left suspended until it is closed.
ActivityCancel ==
    /\ apc \in {"poll", "yield", "sleep"}
    /\ apc' = IF apc = "yield" THEN "aclose" ELSE "closed"
    /\ UNCHANGED <<now, crudVars, log, late, others, conns, last_event_id, events, ai, aout, aticks, taskStreamVars>>

\* aclose() of the abandoned generator: GeneratorExit is raised at the
\* yield, the `async with` block is left and the generator ends.
ActivityFinalize ==
    /\ apc = "aclose"
    /\ apc' = "closed"
    /\ conns' = Release(conns, "activity")
    /\ UNCHANGED <<now, crudVars, log, late, others, last_event_id, events, ai, aout, aticks, taskStreamVars>>

\* activity_event_generator with the failure of a read caught and the loop
\* carried on
ActivityPollFailsRetries ==
    /\ apc = "poll"
    /\ aticks < MaxTicks
    /\ PoolFree
    /\ aticks' = aticks + 1
    /\ conns' = Release(Acquire(conns, "activity"), "activity")
    /\ apc' = "sleep"
    /\ UNCHANGED <<now, crudVars, log, late, others, last_event_id, events, ai, aout, taskStreamVars>>

\* A read of the store that fails (the connection is lost, command_timeout
\* expires): conn.fetch raises, the `async with` block is left, and the
\* exception, which is not a CancelledError, leaves the generator.
ActivityPollFails ==
    /\ apc = "poll"
    /\ aticks < MaxTicks
    /\ PoolFree
    /\ aticks' = aticks + 1
    /\ conns' = Release(Acquire(conns, "activity"), "activity")
    /\ apc' = "closed"
    /\ UNCHANGED <<now, crudVars, log, late, others, last_event_id, events, ai, aout, taskStreamVars>>

\* -------------------------------------------------------------- task stream
\* ORDER BY updated_at ASC in place of DESC
ByUpdatedAsc(store) ==
    {s \in Listings(DOMAIN store) :
        \A i, j \in 1..Len(s) : i < j => store[s[i]].updated_at <= store[s[j]].updated_at}

\* ORDER BY updated_at DESC over the ids of the table
ByUpdatedDesc(store) ==
    {s \in Listings(DOMAIN store) :
        \A i, j \in 1..Len(s) : i < j => store[s[i]].updated_at >= store[s[j]].updated_at}

\* SELECT * FROM tasks ORDER BY updated_at DESC LIMIT 100
SelectRecentTasks(store) == {Limit(s, StreamLimit) : s \in ByUpdatedDesc(store)}

\* the dict the task stream builds from a row
StreamTaskJson(u, row) ==
    [id |-> StrUUID(u), title |-> row.title, description |-> row.description,
     status |-> row.status, priority |-> row.priority, agent_id |-> row.agent_id,
     updated_at |-> isoformat(row.updated_at)]

\* the `update` frames one read makes: one, holding the whole list
TaskFrames(store, ids) == << [i \in 1..Len(ids) |-> StreamTaskJson(ids[i], store[ids[i]])] >>

\* acquire, fetch, build `tasks`, yield the frame
TaskPoll ==
    /\ tpc = "poll"
    /\ tticks < MaxTicks
    /\ PoolFree
    /\ \E ids \in SelectRecentTasks(tasks) :
         LET frames == TaskFrames(tasks, ids) IN
         /\ tout' = Some(frames[Len(frames)])
         /\ tframes' = tframes + Len(frames)
    /\ tticks' = tticks + 1
    /\ tpc' = "yield"
    /\ conns' = Acquire(conns, "task")
    /\ UNCHANGED <<now, crudVars, log, late, others, activityVars>>

\* The client takes the frame; the `async with` block ends and the
\* generator sleeps.
TaskResume ==
    /\ tpc = "yield"
    /\ tpc' = "sleep"
    /\ conns' = Release(conns, "task")
    /\ UNCHANGED <<now, crudVars, log, late, others, activityVars, tout, tframes, tticks>>

\* asyncio.sleep(2) returns
TaskWake ==
    /\ tpc = "sleep"
    /\ tpc' = "poll"
    /\ UNCHANGED <<now, crudVars, log, late, others, conns, activityVars, tout, tframes, tticks>>

\* The client disconnects: as for the activity stream.
TaskCancel ==
    /\ tpc \in {"poll", "yield", "sleep"}
    /\ tpc' = IF tpc = "yield" THEN "aclose" ELSE "closed"
    /\ UNCHANGED <<now, crudVars, log, late, others, conns, activityVars, tout, tframes, tticks>>

\* aclose() of the abandoned generator
TaskFinalize ==
    /\ tpc = "aclose"
    /\ tpc' = "closed"
    /\ conns' = Release(conns, "task")
    /\ UNCHANGED <<now, crudVars, log, late, others, activityVars, tout, tframes, tticks>>

\* A read of the store that fails: the exception leaves the generator.
TaskPollFails ==
    /\ tpc = "poll"
    /\ tticks < MaxTicks
    /\ PoolFree
    /\ tticks' = tticks + 1
    /\ conns' = Release(Acquire(conns, "task"), "task")
    /\ tpc' = "closed"
    /\ UNCHANGED <<now, crudVars, log, late, others, activityVars, tout, tframes>>

\* ------------------------------------------------- further stream clients
\* One more stream connection is opened: its generator acquires, reads and
\* yields its first frame, and its client does not take it.
OpenStalledStream ==
    /\ others < MaxStalled
    /\ PoolFree
    /\ others' = others + 1
    /\ UNCHANGED <<now, crudVars, log, late, activityVars, taskStreamVars, conns>>

\* The client of such a connection disconnects and its generator is closed.
DropStalledStream ==
    /\ others > 0
    /\ others' = others - 1
    /\ UNCHANGED <<now, crudVars, log, late, activityVars, taskStreamVars, conns>>

\* ------------------------------------------------------------ specification
Init ==
    /\ now = 0
    /\ tasks = <<>>
    /\ issued = {}
    /\ pc = [h \in Handlers |-> "idle"]
    /\ req = [h \in Handlers |-> NoReq]
    /\ resp = NoResp
    /\ nreq = 0
    /\ okDeletes = [u \in UUIDs |-> 0]
    /\ log = <<>>
    /\ late = {}
    /\ conns = [g \in Generators |-> 0]
    /\ others = 0
    /\ apc = "poll"
    /\ last_event_id = None
    /\ events = <<>>
    /\ ai = 0
    /\ aout = <<>>
    /\ aticks = 0
    /\ tpc = "poll"
    /\ tout = None
    /\ tframes = 0
    /\ tticks = 0

Next ==
    \/ Tick
    \/ \E h \in Handlers, b \in CreateBodies : CreateRejected(h, b)
    \/ \E h \in Handlers, b \in CreateBodies : CreateInsert(h, b)
    \/ \E h \in Handlers : CreateRead(h)
    \/ \E h \in Handlers, s \in IdStrings, b \in UpdateBodies : UpdateBuild(h, s, b)
    \/ \E h \in Handlers : UpdateExec(h)
    \/ \E h \in Handlers : UpdateRead(h)
    \/ \E h \in Handlers, s \in IdStrings : DeleteTask(h, s)

Spec == Init /\ [][Next]_vars

\* The activity log and one activity-stream connection
NextActivity ==
    \/ Tick
    \/ \E b \in ActivityBodies : LogActivity(b)
    \/ ActivityPoll
    \/ ActivityResume
    \/ ActivityWake
    \/ ActivityCancel
    \/ ActivityFinalize

SpecActivity == Init /\ [][NextActivity]_vars

\* The same with the event loop running every coroutine that can run: the
\* generator proceeds when a connection is free and when its sleep is over,
\* and a client that stays connected takes the frames handed to it.
SpecActivityLive ==
    /\ SpecActivity
    /\ WF_vars(ActivityPoll)
    /\ WF_vars(ActivityResume)
    /\ WF_vars(ActivityWake)

\* inputs of the specifications that follow every route with few values
RouteUpdateBodies == {b \in UpdateBodies : b.status = Some("todo")}
RouteDeleteIds == {StrUUID(1), BadId}
RouteActivityBodies == {b \in ActivityBodies : b.event_type = "f"}

\* The task table and one task-stream connection
StreamCreateBodies == {b \in CreateBodies : TaskCreateValid(b) /\ IsNone(b.status)}
StreamUpdateBodies == {b \in UpdateBodies : ~IsNone(b.priority) /\ IsNone(b.title)}
CanonIds == {s \in IdStrings : s[1] = "canon"}

NextTaskStream ==
    \/ Tick
    \/ \E h \in Handlers, b \in StreamCreateBodies : CreateInsert(h, b)
    \/ \E h \in Handlers : CreateRead(h)
    \/ \E h \in Handlers, s \in CanonIds, b \in StreamUpdateBodies : UpdateBuild(h, s, b)
    \/ \E h \in Handlers : UpdateExec(h)
    \/ \E h \in Handlers : UpdateRead(h)
    \/ \E h \in Handlers, s \in CanonIds : DeleteTask(h, s)
    \/ TaskPoll
    \/ TaskResume
    \/ TaskWake
    \/ TaskCancel
    \/ TaskFinalize

SpecTaskStream == Init /\ [][NextTaskStream]_vars

\* The task table under get_task: the routes that write it, and the reads
NextGet ==
    \/ Tick
    \/ \E h \in Handlers, b \in StreamCreateBodies : CreateInsert(h, b)
    \/ \E h \in Handlers : CreateRead(h)
    \/ \E h \in Handlers, b \in RouteUpdateBodies : UpdateBuild(h, StrUUID(1), b)
    \/ \E h \in Handlers : UpdateExec(h)
    \/ \E h \in Handlers : UpdateRead(h)
    \/ \E h \in Handlers, s \in CanonIds : DeleteTask(h, s)
    \/ \E h \in Handlers, s \in IdStrings : GetTask(h, s)
    \/ \E h \in Handlers : GetTaskRead(h)

SpecGet == Init /\ [][NextGet]_vars

\* Create and update requests that bear on status and completed_at
StatusCreateBodies == {b \in CreateBodies : TaskCreateValid(b)}
StatusUpdateBodies ==
    {b \in UpdateBodies :
        /\ IsNone(b.title)
        /\ IsNone(b.priority)
        /\ (~IsNone(b.status) \/ ~IsNone(b.completed_at))}

NextStatus ==
    \/ Tick
    \/ \E h \in Handlers, b \in StatusCreateBodies : CreateInsert(h, b)
    \/ \E h \in Handlers : CreateRead(h)
    \/ \E h \in Handlers, b \in StatusUpdateBodies : UpdateBuild(h, StrUUID(1), b)
    \/ \E h \in Handlers : UpdateExec(h)
    \/ \E h \in Handlers : UpdateRead(h)

SpecStatus == Init /\ [][NextStatus]_vars

\* Both stream connections, on all their exit paths
NextStreams ==
    \/ Tick
    \/ \E b \in RouteActivityBodies : LogActivity(b)
    \/ ActivityPoll
    \/ ActivityResume
    \/ ActivityWake
    \/ ActivityCancel
    \/ ActivityFinalize
    \/ ActivityPollFails
    \/ TaskPoll
    \/ TaskResume
    \/ TaskWake
    \/ TaskCancel
    \/ TaskFinalize
    \/ TaskPollFails

SpecStreams == Init /\ [][NextStreams]_vars

\* Request handlers and stream connections sharing the pool.  The event
\* loop runs a handler whose statement can proceed; pool.acquire() serves
\* its waiters in turn, so a handler that can acquire again and again does.
\* Nothing makes a client read its stream or disconnect.
NextPool ==
    \/ \E h \in Handlers, b \in RouteUpdateBodies : UpdateBuild(h, StrUUID(1), b)
    \/ \E h \in Handlers : UpdateExec(h)
    \/ \E h \in Handlers : UpdateRead(h)
    \/ TaskPoll
    \/ TaskResume
    \/ TaskWake
    \/ TaskCancel
    \/ TaskFinalize
    \/ OpenStalledStream
    \/ DropStalledStream

SpecPool ==
    /\ Init
    /\ [][NextPool]_vars
    /\ \A h \in Handlers : SF_vars(UpdateExec(h)) /\ WF_vars(UpdateRead(h))

\* Every route of the task board and of the activity log
RouteCreateBodies ==
    {b \in CreateBodies : IsNone(b.priority) /\ (IF IsNone(b.title) THEN TRUE ELSE Val(b.title) # "over")}
       \cup {b \in CreateBodies : ~IsNone(b.description)}

NextRoutes ==
    \/ Tick
    \/ \E h \in Handlers, b \in RouteCreateBodies : CreateRejected(h, b)
    \/ \E h \in Handlers, b \in RouteCreateBodies : CreateInsert(h, b)
    \/ \E h \in Handlers : CreateRead(h)
    \/ \E h \in Handlers, s \in CanonIds, b \in RouteUpdateBodies : UpdateBuild(h, s, b)
    \/ \E h \in Handlers : UpdateExec(h)
    \/ \E h \in Handlers : UpdateRead(h)
    \/ \E h \in Handlers, s \in RouteDeleteIds : DeleteTask(h, s)
    \/ \E h \in Handlers, s \in IdStrings : GetTask(h, s)
    \/ \E h \in Handlers : GetTaskRead(h)
    \/ \E h \in Handlers, q \in ListQueries : ListTasks(h, q)
    \/ \E b \in RouteActivityBodies : LogActivity(b)
    \/ \E h \in Handlers, q \in ActivityQueries : GetActivity(h, q)

SpecRoutes == Init /\ [][NextRoutes]_vars

\* ================================================================== claims
\* the step in which handler h's UPDATE statement runs against the store
UpdateWrites(h) == pc[h] = "upd_exec" /\ pc'[h] = "upd_read"
\* the step in which handler h's update request is answered after its read
UpdateAnswers(h) == pc[h] = "upd_read" /\ pc'[h] = "idle"
\* the step in which handler h's create request is answered
CreateAnswers(h) == pc[h] = "create_read" /\ pc'[h] = "idle"
\* the step in which a delete request is served: a request is accepted and
\* answered at once with a delete response
DeleteServed == nreq' = nreq + 1 /\ pc' = pc /\ resp'.kind = "delete"

TaskColumns == {"title", "description", "status", "priority", "agent_id",
                "created_at", "updated_at", "completed_at"}

\* C4: completed_at is stamped only by an update that moves status from a
\* non-done value into `done` without supplying completed_at; in particular
\* an update that sets `done` on a task already `done` leaves it as it is.
C4_StampedOnlyOnTransition ==
    [][\A h \in Handlers :
         UpdateWrites(h) /\ ParseUUID(req[h].ids) \in DOMAIN tasks =>
            LET u == ParseUUID(req[h].ids)
                b == req[h].body
            IN  tasks'[u].completed_at # tasks[u].completed_at =>
                   /\ tasks[u].status # "done"
                   /\ b.status = Some("done")
                   /\ ~Truthy(b.completed_at)]_vars

\* C5: an update that sets status to `done` and supplies completed_at
\* stores the supplied value.
C5_SuppliedCompletedAtStored ==
    [][\A h \in Handlers :
         UpdateWrites(h) /\ ParseUUID(req[h].ids) \in DOMAIN tasks =>
            LET u == ParseUUID(req[h].ids)
                b == req[h].body
            IN  b.status = Some("done") /\ Truthy(b.completed_at) =>
                   tasks'[u].completed_at = Some(ParseTimestamp(Val(b.completed_at)))]_vars

\* C6: every stored task has a title of 1..500 characters, a priority in
\* 0..10 and one of the five statuses.
C6_StoredTasksValid ==
    \A u \in DOMAIN tasks :
        /\ TitleLen[tasks[u].title] >= 1
        /\ TitleLen[tasks[u].title] <= 500
        /\ tasks[u].priority \in 0..10
        /\ tasks[u].status \in {"backlog", "todo", "in_progress", "done", "cancelled"}

\* the columns an update request with body b may change
MayChange(b) ==
    {c \in {"title", "description", "status", "priority", "agent_id", "completed_at"} :
        ~IsNone(b[c])}
    \cup {"updated_at"}
    \cup (IF b.status = Some("done") /\ IsNone(b.completed_at) THEN {"completed_at"} ELSE {})

\* C7: the write of an update changes, in the addressed task, only the
\* columns of the fields present in the request, updated_at, and
\* completed_at when status is set to `done` with no completed_at
\* supplied; it adds and removes no task and changes no other task.
C7_UpdateFrame ==
    [][\A h \in Handlers :
         UpdateWrites(h) =>
            LET u == ParseUUID(req[h].ids)
                b == req[h].body
            IN  /\ DOMAIN tasks' = DOMAIN tasks
                /\ \A v \in DOMAIN tasks : v # u => tasks'[v] = tasks[v]
                /\ u \in DOMAIN tasks =>
                      \A c \in TaskColumns :
                          tasks'[u][c] # tasks[u][c] => c \in MayChange(b)]_vars

\* C7 witness: an update has written a row of a table of two or more tasks,
\* and a field absent from the request keeps its non-null value.
C7_Witness ==
    \E h \in Handlers :
        /\ pc[h] = "upd_read"
        /\ req[h].nrows = 1
        /\ Cardinality(DOMAIN tasks) >= 2
        /\ IsNone(req[h].body.description)
        /\ ParseUUID(req[h].ids) \in DOMAIN tasks
        /\ ~IsNone(tasks[ParseUUID(req[h].ids)].description)

\* C8: an update answers 404 exactly when its write affected no row.
C8_NotFoundIffNoRowWritten ==
    [][\A h \in Handlers :
         UpdateAnswers(h) => (resp'.code = 404 <=> req[h].nrows = 0)]_vars

\* C9: a create request with valid input is answered 200 with the record it
\* persisted: its fresh id, the fields as supplied, status `backlog` and
\* priority 0 when omitted, completed_at null.
C9_CreateReturnsPersisted ==
    [][\A h \in Handlers :
         CreateAnswers(h) =>
            LET b == req[h].body IN
            /\ resp'.code = 200
            /\ Val(resp'.body).id = StrUUID(req[h].id)
            /\ Val(resp'.body).title = Val(b.title)
            /\ Val(resp'.body).description = b.description
            /\ Val(resp'.body).agent_id = b.agent_id
            /\ Val(resp'.body).status = (IF IsNone(b.status) THEN "backlog" ELSE Val(b.status))
            /\ Val(resp'.body).priority = (IF IsNone(b.priority) THEN 0 ELSE Val(b.priority))
            /\ IsNone(Val(resp'.body).completed_at)]_vars

\* what a delete of the well-formed id string resp'.ids did
DeleteEffect ==
    LET u == ParseUUID(Val(resp'.ids)) IN
    IF u \in DOMAIN tasks
    THEN /\ resp'.code = 200
         /\ ParseUUID(Val(resp'.body)) = u
         /\ DOMAIN tasks' = DOMAIN tasks \ {u}
         /\ \A v \in DOMAIN tasks' : tasks'[v] = tasks[v]
    ELSE /\ resp'.code = 404
         /\ tasks' = tasks

\* every id that was inserted and is gone has had exactly one successful
\* delete, and no other id has had any
DeletedOnce ==
    \A u \in UUIDs :
        okDeletes[u] = (IF u \in issued /\ u \notin DOMAIN tasks THEN 1 ELSE 0)

\* C10: a delete of a (well-formed) id not in the store answers 404 and
\* leaves the store as it is; a delete of an id in the store removes that
\* task only and answers 200 with the id; of all the deletes of one id,
\* exactly one succeeds.
C10_DeleteOnce ==
    /\ [][DeleteServed /\ WellFormed(Val(resp'.ids)) => DeleteEffect]_vars
    /\ []DeletedOnce

\* C10 witness: an id has been deleted with success and a later delete of
\* the same id has just been answered 404.
C10_Witness ==
    /\ resp.kind = "delete"
    /\ resp.code = 404
    /\ okDeletes[ParseUUID(Val(resp.ids))] = 1

\* --------------------------------------------------------- stream claims
\* C1: on an activity-stream connection no event is emitted more than once.
C1_NoEventEmittedTwice ==
    \A i, j \in 1..Len(aout) : i # j => aout[i].event.id # aout[j].event.id

\* the step in which the first non-empty batch is read
FirstBatchRead == IsNone(last_event_id) /\ ~IsNone(last_event_id')

\* evs lists, each once, min(limit, |rows|) events of the rows, and no row
\* left out is more recent than one listed
AreMostRecent(evs, rows) ==
    /\ Len(evs) = Min(StreamLimit, Cardinality(rows))
    /\ \A i \in 1..Len(evs) : \E r \in rows : EventJson(r) = evs[i]
    /\ \A i, j \in 1..Len(evs) : i # j => evs[i].id # evs[j].id
    /\ \A r \in rows :
          (\A i \in 1..Len(evs) : evs[i].id # StrUUID(r.id)) =>
             \A i \in 1..Len(evs) : r.created_at <= ParseTimestamp(evs[i].created_at)

\* the frames pushed in the tick of the first frame
FirstBatchFrames == SelectSeq(aout, LAMBDA f : f.tick = aout[1].tick)

\* the first batch has been pushed to its last frame
FirstBatchPushed ==
    /\ aout # <<>>
    /\ aticks = aout[1].tick
    /\ apc = "sleep"

\* once pushed, the first batch is the events read, each in one frame,
\* in non-decreasing created_at order
FirstBatchOldestFirst ==
    FirstBatchPushed =>
       LET fs == FirstBatchFrames IN
       /\ Len(fs) = Len(events)
       /\ \A i \in 1..Len(events) : \E k \in 1..Len(fs) : fs[k].event = events[i]
       /\ \A k, l \in 1..Len(fs) :
             k < l => ParseTimestamp(fs[k].event.created_at)
                        <= ParseTimestamp(fs[l].event.created_at)

\* C2: the first non-empty batch is the (at most StreamLimit) most recent
\* events of the log at its read, each once, pushed oldest first.
C2_FirstBatch ==
    /\ [][FirstBatchRead => AreMostRecent(events', ActivityRows)]_vars
    /\ []FirstBatchOldestFirst

\* C2 witness: the first batch was cut at the limit (an event inserted
\* before one of the batch was left out) and its frames carry increasing
\* timestamps.
C2_Witness ==
    /\ FirstBatchPushed
    /\ Len(aout) = StreamLimit
    /\ ParseTimestamp(aout[1].event.created_at) < ParseTimestamp(aout[Len(aout)].event.created_at)
    /\ \E r \in ActivityRows :
          /\ \A k \in 1..Len(aout) : aout[k].event.id # StrUUID(r.id)
          /\ \E k \in 1..Len(aout) : r.id < ParseUUID(aout[k].event.id)

\* frame lists min(limit, |store|) tasks of the store, each once with the
\* store's values, and no task left out was updated more recently than one
\* listed
IsSnapshot(frame, store) ==
    /\ Len(frame) = Min(StreamLimit, Cardinality(DOMAIN store))
    /\ \A i \in 1..Len(frame) :
          \E u \in DOMAIN store : frame[i] = StreamTaskJson(u, store[u])
    /\ \A i, j \in 1..Len(frame) : i # j => frame[i].id # frame[j].id
    /\ \A u \in DOMAIN store :
          (\A i \in 1..Len(frame) : frame[i].id # StrUUID(u)) =>
             \A i \in 1..Len(frame) :
                 store[u].updated_at <= ParseTimestamp(frame[i].updated_at)

\* C3: each read of the task stream pushes exactly one frame, and the frame
\* is the StreamLimit most recently updated tasks of the store at that read
\* (all of them if fewer); no frame is pushed otherwise.
C3_SnapshotPerTick ==
    [][(tticks' # tticks \/ tframes' # tframes) =>
          /\ tticks' = tticks + 1
          /\ tframes' = tframes + 1
          /\ IsSnapshot(Val(tout'), tasks)]_vars

\* C3 witness: a second frame has been pushed, it is cut at the limit, and
\* a task updated earlier than the listed ones is left out.
C3_Witness ==
    /\ tframes >= 2
    /\ tpc = "yield"
    /\ Len(Val(tout)) = StreamLimit
    /\ \E u \in DOMAIN tasks :
          \A i \in 1..Len(Val(tout)) :
              /\ Val(tout)[i].id # StrUUID(u)
              /\ tasks[u].updated_at < ParseTimestamp(Val(tout)[i].updated_at)

\* ---------------------------------------------------------- route claims
\* the step in which handler h's get request is answered after its read
GetAnswers(h) == pc[h] = "get_read" /\ pc'[h] = "idle"

\* no get request with a malformed id has a statement at the store, and a
\* get request is answered 400 exactly when its id is malformed
GetMalformedRejected ==
    /\ \A h \in Handlers : pc[h] = "get_read" => WellFormed(req[h].ids)
    /\ resp.kind = "get" => (resp.code = 400 <=> ~WellFormed(Val(resp.ids)))

\* C11: get-by-id with a malformed id is answered 400 (not 404, not 500)
\* with no statement sent to the store; with a well-formed id that matches
\* no row it is answered 404; otherwise it returns the matching task.
C11_GetTask ==
    /\ []GetMalformedRejected
    /\ [][\A h \in Handlers :
            GetAnswers(h) =>
               LET u == ParseUUID(req[h].ids) IN
               /\ resp'.kind = "get"
               /\ resp'.ids = Some(req[h].ids)
               /\ IF u \in DOMAIN tasks
                  THEN resp'.code = 200 /\ Val(resp'.body) = TaskJson(u, tasks[u])
                  ELSE resp'.code = 404]_vars

\* C11 witness: a malformed id has just been answered 400 while the store
\* holds tasks, and a get of a stored task (by another spelling of its id)
\* has its statement at the store.
C11_Witness ==
    /\ resp.kind = "get"
    /\ resp.code = 400
    /\ \E h \in Handlers :
          /\ pc[h] = "get_read"
          /\ req[h].ids[1] = "upper"
          /\ ParseUUID(req[h].ids) \in DOMAIN tasks

\* C12: a listing filtered by a status S holds exactly the tasks whose
\* status is S, each once and as stored, and any two of its entries are
\* strictly ordered by priority descending, then created_at descending.
C12_ListFilteredTotallyOrdered ==
    [][\A h \in Handlers, q \in ListQueries :
         ListTasks(h, q) /\ ~IsNone(q.status) =>
            LET rows == Val(resp'.body) IN
            /\ \A u \in DOMAIN tasks :
                  tasks[u].status = Val(q.status)
                     <=> \E i \in 1..Len(rows) : rows[i] = TaskJson(u, tasks[u])
            /\ \A i \in 1..Len(rows) :
                  \E u \in DOMAIN tasks : rows[i] = TaskJson(u, tasks[u])
            /\ \A i, j \in 1..Len(rows) : i # j => rows[i].id # rows[j].id
            /\ \A i, j \in 1..Len(rows) :
                  i < j =>
                    \/ rows[i].priority > rows[j].priority
                    \/ /\ rows[i].priority = rows[j].priority
                       /\ ParseTimestamp(rows[i].created_at)
                             > ParseTimestamp(rows[j].created_at)]_vars

\* C13: a step changes the log only by appending one event at its end, and
\* only the append route does so; every event already there stays as it is.
C13_LogAppendOnly ==
    [][log' # log =>
          /\ Len(log') = Len(log) + 1
          /\ \A i \in 1..Len(log) : log'[i] = log[i]
          /\ \A i \in 1..Len(log) : log'[Len(log')].id # log[i].id
          /\ resp'.kind = "log"]_vars

\* C13 witness: the log holds two or more events and a task has just been
\* deleted with success.
C13_Witness ==
    /\ Len(log) >= 2
    /\ resp.kind = "delete"
    /\ resp.code = 200

\* C14: in every step, a task whose completed_at is non-null afterwards has
\* status `done` afterwards or had a non-null completed_at before the
\* step; tasks start with none, so a non-null completed_at goes back to a
\* state in which the task was `done`.
C14_CompletedOnlyIfDone ==
    [][\A u \in DOMAIN tasks' :
          ~IsNone(tasks'[u].completed_at) =>
             IF tasks'[u].status = "done" THEN TRUE
             ELSE IF u \in DOMAIN tasks THEN ~IsNone(tasks[u].completed_at)
             ELSE FALSE]_vars

\* C14 witness: a task that was completed and then moved out of `done`
\* keeps its completed_at.
C14_Witness ==
    \E u \in DOMAIN tasks :
        /\ ~IsNone(tasks[u].completed_at)
        /\ tasks[u].status # "done"

\* C15: the data stored for an appended event is the payload supplied, the
\* empty document included, and is null only when none was supplied.
C15_DataStoredAsSupplied ==
    [][\A b \in ActivityBodies :
          LogActivity(b) =>
             log'[Len(log')].data =
                (IF IsNone(b.data) THEN None ELSE Some(JsonDumps(Val(b.data))))]_vars

\* after a tick that has emitted events, the watermark is the created_at
\* of the newest event emitted so far
WatermarkIsNewestEmitted ==
    apc = "sleep" /\ events # <<>> =>
       /\ ~IsNone(last_event_id)
       /\ \A k \in 1..Len(aout) :
             ParseTimestamp(aout[k].event.created_at) <= ParseTimestamp(Val(last_event_id))
       /\ \E k \in 1..Len(aout) : aout[k].event.created_at = Val(last_event_id)

\* C16: a read made with the watermark set fetches only events with
\* created_at above it, and after every tick that emits the watermark is
\* the created_at of the newest event emitted so far.
C16_WatermarkFollowsEmitted ==
    /\ [][~IsNone(last_event_id) /\ aticks' = aticks + 1 /\ apc' # "closed" =>
            \A i \in 1..Len(events') :
                ParseTimestamp(events'[i].created_at) > ParseTimestamp(Val(last_event_id))]_vars
    /\ []WatermarkIsNewestEmitted

\* event i has been emitted on the activity-stream connection
Emitted(i) == \E k \in 1..Len(aout) : aout[k].event.id = StrUUID(i)

\* C18: an event appended while the connection is open and past its first
\* batch is emitted on it, as long as the connection stays open and a tick
\* is still to come.
C18_LateEventEmitted ==
    \A i \in 1..MaxEvents :
        (i \in late /\ aticks < MaxTicks) ~> (Emitted(i) \/ apc \in {"aclose", "closed"})

\* ----------------------------------------------------------- pool claims
\* C17: a stream generator holds at most one pool connection, none while
\* it sleeps between ticks and none once it has ended, whether it ended by
\* a cancellation at a yield, a cancellation in the sleep or a failed read.
C17_StreamConnectionScoped ==
    /\ \A g \in Generators : conns[g] \in {0, 1}
    /\ apc \in {"sleep", "closed"} => conns["activity"] = 0
    /\ tpc \in {"sleep", "closed"} => conns["task"] = 0

\* C17 witness: the activity stream was cancelled while it was handing
\* over a frame of a batch with more to come and has ended, and the task
\* stream has ended on a failed read after a tick that went through.
C17_Witness ==
    /\ apc = "closed"
    /\ ai >= 1
    /\ ai < Len(events)
    /\ tpc = "closed"
    /\ tframes >= 1
    /\ tframes < tticks

\* C19: a request handler waiting for a pool connection gets one, whatever
\* the number of stream connections whose clients have stopped reading.
C19_HandlerAcquires ==
    \A h \in Handlers : (pc[h] = "upd_exec") ~> (pc[h] # "upd_exec")

\* C20: a stream generator whose read of the store fails ends in that step
\* without a frame, and a generator that has ended makes no further read
\* and pushes no further frame.
C20_FailedReadCloses ==
    /\ [][ActivityPollFails => apc' = "closed" /\ aout' = aout]_vars
    /\ [][TaskPollFails => tpc' = "closed" /\ tframes' = tframes /\ tout' = tout]_vars
    /\ [][apc = "closed" => apc' = "closed" /\ aticks' = aticks /\ aout' = aout]_vars
    /\ [][tpc = "closed" => tpc' = "closed" /\ tticks' = tticks /\ tframes' = tframes]_vars

\* C20 witness: both streams have ended on a failed read, the task stream
\* after a tick that went through, the activity stream on its first read
\* with an event in the log since before the clock last moved.
C20_Witness ==
    /\ tpc = "closed"
    /\ tframes >= 1
    /\ tframes < tticks
    /\ apc = "closed"
    /\ aticks = 1
    /\ aout = <<>>
    /\ log # <<>>
    /\ log[1].created_at < now

====
